---- MODULE Spec2Model ----
(***************************************************************************)
(* Model of the UTXO transaction validator (src/src/transaction-validator. *)
(* ts) and of the binary transaction codec (src/src/utils/binary-encoding. *)
(* ts).                                                                    *)
(*                                                                         *)
(* Strings are sequences of Unicode code points.  Amounts and timestamps   *)
(* are non-negative integers held as five base-2^16 limbs, least           *)
(* significant first, so that values up to 2^64 and their sums can be      *)
(* written down; a JavaScript number is such an integer rounded to 53      *)
(* significant bits, a bigint is such an integer kept exactly.             *)
(***************************************************************************)
EXTENDS Integers, Sequences, FiniteSets, TLC

VARIABLES
    pc,           \* position inside the running call
    transaction,  \* the Transaction argument
    utxoPool,     \* the pool snapshot behind utxoPool.getUTXO
    i,            \* index of the next input / output the loop visits
    errors,       \* validateTransaction: const errors
    usedUTXOs,    \* validateTransaction: const usedUTXOs
    inputSum,     \* validateTransaction: let inputSum
    outputSum,    \* validateTransaction: let outputSum
    result,       \* the value validateTransaction returned
    buffer,       \* the Buffer handed to decodeTransaction
    origin,       \* how buffer was obtained from encodeTransaction's output
    encoded,      \* outcome of encodeTransaction
    decoded       \* outcome of decodeTransaction

vars == <<pc, transaction, utxoPool, i, errors, usedUTXOs, inputSum,
          outputSum, result, buffer, origin, encoded, decoded>>

-----------------------------------------------------------------------------
(* Bounds of the model.                                                    *)

MaxInputs == 2
MaxOutputs == 2
MaxCodecInputs == 1
MaxCodecOutputs == 1
MaxTrailing == 2

-----------------------------------------------------------------------------
(* Generic helpers.                                                        *)

SeqsUpTo(S, n) == UNION {[1..k -> S] : k \in 0..n}

\* n copies of the sequence s, one after the other
Repeat(s, n) == [k \in 1..(n * Len(s)) |-> s[((k - 1) % Len(s)) + 1]]

\* the concatenation of ss[lo], ..., ss[hi]
RECURSIVE FlattenRange(_, _, _)
FlattenRange(ss, lo, hi) ==
    IF lo > hi THEN <<>>
    ELSE IF lo = hi THEN ss[lo]
    ELSE FlattenRange(ss, lo, (lo + hi) \div 2)
            \o FlattenRange(ss, ((lo + hi) \div 2) + 1, hi)

Flatten(ss) == FlattenRange(ss, 1, Len(ss))

-----------------------------------------------------------------------------
(* Integers as limbs; JavaScript number arithmetic.                        *)

Limb == 256 * 256

Zero == <<0, 0, 0, 0, 0>>

Small(n) == <<n, 0, 0, 0, 0>>

One == Small(1)

TwoTo53 == <<0, 0, 0, 32, 0>>

\* exact sum of two limb integers (both below 2^79)
AddExact(x, y) ==
    LET s1 == x[1] + y[1]
        s2 == x[2] + y[2] + (s1 \div Limb)
        s3 == x[3] + y[3] + (s2 \div Limb)
        s4 == x[4] + y[4] + (s3 \div Limb)
        s5 == x[5] + y[5] + (s4 \div Limb)
    IN  <<s1 % Limb, s2 % Limb, s3 % Limb, s4 % Limb, s5 % Limb>>

RECURSIVE BitsOf(_)
BitsOf(n) == IF n = 0 THEN 0 ELSE 1 + BitsOf(n \div 2)

RECURSIVE Pow2(_)
Pow2(n) == IF n = 0 THEN 1 ELSE 2 * Pow2(n - 1)

BitLength(x) ==
    IF x[5] # 0 THEN 64 + BitsOf(x[5])
    ELSE IF x[4] # 0 THEN 48 + BitsOf(x[4])
    ELSE IF x[3] # 0 THEN 32 + BitsOf(x[3])
    ELSE IF x[2] # 0 THEN 16 + BitsOf(x[2])
    ELSE BitsOf(x[1])

\* the double nearest to the integer x, ties to even (53-bit significand)
ToDouble(x) ==
    IF BitLength(x) <= 53 THEN x
    ELSE LET q == Pow2(BitLength(x) - 53)
             r == x[1] % q
             down == <<x[1] - r, x[2], x[3], x[4], x[5]>>
             up == AddExact(down, Small(q))
             odd == ((x[1] \div q) % 2) = 1
         IN  IF 2 * r < q THEN down
             ELSE IF 2 * r > q THEN up
             ELSE IF odd THEN up ELSE down

\* a + b on JavaScript numbers holding non-negative integers
NumberAdd(a, b) == ToDouble(AddExact(a, b))

\* amount <= 0 on a non-negative number
NotPositive(a) == a = Zero

-----------------------------------------------------------------------------
(* Strings.                                                                *)

Colon == <<58>>

\* quotient and remainder of a limb integer divided by ten
DivTen(x) ==
    LET t5 == x[5]
        t4 == (t5 % 10) * Limb + x[4]
        t3 == (t4 % 10) * Limb + x[3]
        t2 == (t3 % 10) * Limb + x[2]
        t1 == (t2 % 10) * Limb + x[1]
    IN  [q |-> <<t1 \div 10, t2 \div 10, t3 \div 10, t4 \div 10, t5 \div 10>>,
         r |-> t1 % 10]

\* `${n}` for a non-negative integer n
RECURSIVE DecimalString(_)
DecimalString(n) ==
    IF DivTen(n).q = Zero THEN <<48 + DivTen(n).r>>
    ELSE DecimalString(DivTen(n).q) \o <<48 + DivTen(n).r>>

-----------------------------------------------------------------------------
(* Collaborators of the validator that live outside src/.                  *)

\* the value getUTXO gives for a reference the pool does not hold
Undefined == [absent |-> TRUE]

\* UTXOPoolManager.getUTXO: the unspent output recorded under the reference
GetUTXO(pool, txId, outputIndex) ==
    IF <<txId, outputIndex>> \in DOMAIN pool
    THEN pool[<<txId, outputIndex>>]
    ELSE Undefined

\* verify(payload, signature, owner): a signature is valid for exactly one
\* owner; every input of one call is verified over the same payload
Verify(txData, signature, owner) == signature = <<115>> \o owner

\* createValidationError(code, message)
CreateValidationError(code, message) == [code |-> code, message |-> message]

-----------------------------------------------------------------------------
(* TransactionValidator.                                                   *)

\* createTransactionDataForSigning_: the transaction without its signatures
CreateTransactionDataForSigning(tx) ==
    [id |-> tx.id,
     inputs |-> [k \in DOMAIN tx.inputs |->
                    [utxoId |-> tx.inputs[k].utxoId, owner |-> tx.inputs[k].owner]],
     outputs |-> tx.outputs,
     timestamp |-> tx.timestamp]

\* `${input.utxoId.txId}:${input.owner}:${input.utxoId.outputIndex}`
TxKey(input) ==
    input.utxoId.txId \o Colon \o input.owner \o Colon
        \o DecimalString(input.utxoId.outputIndex)

\* mutant of Push: the error is put in front of the list
PushFront(errs, e) == <<e>> \o errs

\* errors.push(e)
Push(errs, e) == Append(errs, e)

\* the locals of validateTransaction as the call starts
Locals0 == [errors |-> <<>>, usedUTXOs |-> {}, inputSum |-> Zero, outputSum |-> Zero]

\* if (transaction.inputs.length === 0) ...
EmptyInputsStep(tx, st) ==
    IF Len(tx.inputs) = 0
    THEN [st EXCEPT !.errors = Push(@, CreateValidationError("EMPTY_INPUTS",
                <<"Transaction must have at least one input">>))]
    ELSE st

\* !tx: the lookup found nothing
NotFound(utxo) == utxo = Undefined

\* mutant of NotFoundBranch: the continue is lost and the signature of the
\* unresolved input is still checked
NotFoundBranchNoContinue(st, input) ==
    LET reported == [st EXCEPT !.errors = Push(@, CreateValidationError("UTXO_NOT_FOUND",
                        <<"Input UTXO not found", input.utxoId.txId>>))]
    IN  IF ~Verify(<<>>, input.signature, input.owner)
        THEN [reported EXCEPT !.errors = Push(@, CreateValidationError("INVALID_SIGNATURE",
                <<"Invalid signature for input UTXO", input.utxoId.txId>>))]
        ELSE reported

\* errors.push(UTXO_NOT_FOUND); continue
NotFoundBranch(st, input) ==
    [st EXCEPT !.errors = Push(@, CreateValidationError("UTXO_NOT_FOUND",
        <<"Input UTXO not found", input.utxoId.txId>>))]

\* errors.push(DOUBLE_SPENDING); continue
DoubleSpendingBranch(st, input) ==
    [st EXCEPT !.errors = Push(@, CreateValidationError("DOUBLE_SPENDING",
        <<"Double spending detected for UTXO", input.utxoId.txId>>))]

\* errors.push(NEGATIVE_AMOUNT); continue
NegativeInputBranch(st, input) ==
    [st EXCEPT !.errors = Push(@, CreateValidationError("NEGATIVE_AMOUNT",
        <<"Negative or 0 amount in UTXO", input.utxoId.txId>>))]

\* usedUTXOs.add(txKey); inputSum += tx.amount
CountInput(st, utxo, txKey) ==
    [st EXCEPT !.usedUTXOs = @ \cup {txKey}, !.inputSum = NumberAdd(@, utxo.amount)]

\* mutant of SignatureVerifies: the signature is verified against the owner the
\* pool records
SignatureVerifiesRecordedOwner(tx, utxo, input) ==
    Verify(CreateTransactionDataForSigning(tx), input.signature, utxo.owner)

\* verify(txData, input.signature, input.owner), with the resolved utxo in scope
SignatureVerifies(tx, utxo, input) ==
    Verify(CreateTransactionDataForSigning(tx), input.signature, input.owner)

\* if (!verify(...)) errors.push(INVALID_SIGNATURE)
SignatureBranch(tx, st, utxo, input) ==
    IF ~SignatureVerifies(tx, utxo, input)
    THEN [st EXCEPT !.errors = Push(@, CreateValidationError("INVALID_SIGNATURE",
            <<"Invalid signature for input UTXO", input.utxoId.txId>>))]
    ELSE st

\* one iteration of: for (const input of transaction.inputs)
InputStep(tx, pool, st, input) ==
    LET utxo == GetUTXO(pool, input.utxoId.txId, input.utxoId.outputIndex)
        txKey == TxKey(input)
    IN  IF NotFound(utxo) THEN NotFoundBranch(st, input)
        ELSE IF txKey \in st.usedUTXOs THEN DoubleSpendingBranch(st, input)
        ELSE IF NotPositive(utxo.amount) THEN NegativeInputBranch(st, input)
        ELSE SignatureBranch(tx, CountInput(st, utxo, txKey), utxo, input)

\* if (transaction.outputs.length === 0) ...
EmptyOutputsStep(tx, st) ==
    IF Len(tx.outputs) = 0
    THEN [st EXCEPT !.errors = Push(@, CreateValidationError("EMPTY_OUTPUTS",
                <<"Transaction must have at least one output">>))]
    ELSE st

\* one iteration of: for (const output of transaction.outputs)
OutputStep(st, output) ==
    IF NotPositive(output.amount)
    THEN [st EXCEPT !.errors = Push(@, CreateValidationError("NEGATIVE_AMOUNT",
                <<"Output amounts must be positive">>))]
    ELSE [st EXCEPT !.outputSum = NumberAdd(@, output.amount)]

\* if (inputSum !== outputSum) ...
MismatchStep(st) ==
    IF st.inputSum # st.outputSum
    THEN [st EXCEPT !.errors = Push(@, CreateValidationError("AMOUNT_MISMATCH",
                <<"Input sum does not match output sum", st.inputSum, st.outputSum>>))]
    ELSE st

\* return { valid: errors.length === 0, errors }
ReturnValue(st) == [valid |-> Len(st.errors) = 0, errors |-> st.errors]

RECURSIVE InputLoop(_, _, _, _)
InputLoop(tx, pool, st, k) ==
    IF k > Len(tx.inputs) THEN st
    ELSE InputLoop(tx, pool, InputStep(tx, pool, st, tx.inputs[k]), k + 1)

RECURSIVE OutputLoop(_, _, _)
OutputLoop(tx, st, k) ==
    IF k > Len(tx.outputs) THEN st
    ELSE OutputLoop(tx, OutputStep(st, tx.outputs[k]), k + 1)

\* validateTransaction as one call against a pool snapshot
ValidateTransaction(tx, pool) ==
    ReturnValue(MismatchStep(OutputLoop(tx,
        EmptyOutputsStep(tx, InputLoop(tx, pool, EmptyInputsStep(tx, Locals0), 1)), 1)))


-----------------------------------------------------------------------------
(* Inputs of the validator runs.                                           *)

IdA == <<97>>                 \* "a"
IdAB == <<97, 58, 98>>        \* "a:b"
OwnerC == <<99>>              \* "c"
OwnerBC == <<98, 58, 99>>     \* "b:c"
Bob == <<98, 111, 98>>        \* "bob"

\* the signature that verifies for owner
SignatureOf(owner) == <<115>> \o owner

NoValue == [none |-> TRUE]

\* output 0 of either transaction is claimed under either owner with either
\* signature; output 1 is claimed by "c": (a, 1) with the signature of "c",
\* (a:b, 1) with a signature that does not verify
ValidatorInputs ==
    [utxoId : [txId : {IdA, IdAB}, outputIndex : {Zero}],
     owner : {OwnerC, OwnerBC},
     signature : {SignatureOf(OwnerC), SignatureOf(OwnerBC)}]
    \cup
    {[utxoId |-> [txId |-> IdA, outputIndex |-> One], owner |-> OwnerC,
      signature |-> SignatureOf(OwnerC)],
     [utxoId |-> [txId |-> IdAB, outputIndex |-> One], owner |-> OwnerC,
      signature |-> SignatureOf(OwnerBC)]}

ValidatorOutputs == [recipient : {Bob}, amount : {Zero, One, TwoTo53}]

ValidatorTransactions ==
    [id : {IdA},
     inputs : SeqsUpTo(ValidatorInputs, MaxInputs),
     outputs : SeqsUpTo(ValidatorOutputs, MaxOutputs),
     timestamp : {One}]

\* pool snapshots: (a:b, 1) is never held, (a, 1) holds a zero amount
PoolWith(amount) ==
    (<<IdA, Zero>> :> [owner |-> OwnerC, amount |-> One])
    @@ (<<IdAB, Zero>> :> [owner |-> OwnerBC, amount |-> amount])
    @@ (<<IdA, One>> :> [owner |-> OwnerC, amount |-> Zero])

Pools == {PoolWith(One), PoolWith(TwoTo53)}

-----------------------------------------------------------------------------
(* validateTransaction as a state machine: one step per loop iteration.    *)

Locals == [errors |-> errors, usedUTXOs |-> usedUTXOs,
           inputSum |-> inputSum, outputSum |-> outputSum]

SetLocals(st) ==
    /\ errors' = st.errors
    /\ usedUTXOs' = st.usedUTXOs
    /\ inputSum' = st.inputSum
    /\ outputSum' = st.outputSum

CodecIdle == <<buffer, origin, encoded, decoded>>

InitValidate ==
    /\ pc = "start"
    /\ transaction \in ValidatorTransactions
    /\ utxoPool \in Pools
    /\ i = 0
    /\ errors = Locals0.errors
    /\ usedUTXOs = Locals0.usedUTXOs
    /\ inputSum = Locals0.inputSum
    /\ outputSum = Locals0.outputSum
    /\ result = NoValue
    /\ buffer = <<>>
    /\ origin = "none"
    /\ encoded = NoValue
    /\ decoded = NoValue

CheckInputsExist ==
    /\ pc = "start"
    /\ SetLocals(EmptyInputsStep(transaction, Locals))
    /\ pc' = "inputs"
    /\ i' = 1
    /\ UNCHANGED <<transaction, utxoPool, result, CodecIdle>>

ValidateInput ==
    /\ pc = "inputs"
    /\ i <= Len(transaction.inputs)
    /\ SetLocals(InputStep(transaction, utxoPool, Locals, transaction.inputs[i]))
    /\ i' = i + 1
    /\ UNCHANGED <<pc, transaction, utxoPool, result, CodecIdle>>

CheckOutputsExist ==
    /\ pc = "inputs"
    /\ i > Len(transaction.inputs)
    /\ SetLocals(EmptyOutputsStep(transaction, Locals))
    /\ pc' = "outputs"
    /\ i' = 1
    /\ UNCHANGED <<transaction, utxoPool, result, CodecIdle>>

ValidateOutput ==
    /\ pc = "outputs"
    /\ i <= Len(transaction.outputs)
    /\ SetLocals(OutputStep(Locals, transaction.outputs[i]))
    /\ i' = i + 1
    /\ UNCHANGED <<pc, transaction, utxoPool, result, CodecIdle>>

CheckSumsAndReturn ==
    /\ pc = "outputs"
    /\ i > Len(transaction.outputs)
    /\ SetLocals(MismatchStep(Locals))
    /\ result' = ReturnValue(MismatchStep(Locals))
    /\ pc' = "done"
    /\ UNCHANGED <<i, transaction, utxoPool, CodecIdle>>

NextValidate ==
    \/ CheckInputsExist
    \/ ValidateInput
    \/ CheckOutputsExist
    \/ ValidateOutput
    \/ CheckSumsAndReturn

SpecValidate == InitValidate /\ [][NextValidate]_vars


-----------------------------------------------------------------------------
(* Vocabulary of the validator's claims, stated on the transaction and     *)
(* the pool alone.                                                         *)

Resolves(pool, input) == <<input.utxoId.txId, input.utxoId.outputIndex>> \in DOMAIN pool

ResolvedAmount(pool, input) == pool[<<input.utxoId.txId, input.utxoId.outputIndex>>].amount

Triple(input) == <<input.utxoId.txId, input.owner, input.utxoId.outputIndex>>

TripleKeys(tx) == [k \in DOMAIN tx.inputs |-> Triple(tx.inputs[k])]

StringKeys(tx) == [k \in DOMAIN tx.inputs |-> TxKey(tx.inputs[k])]

\* input k resolves, has a positive amount and repeats the key of no earlier
\* counted input
RECURSIVE Counted(_, _, _, _)
Counted(keys, tx, pool, k) ==
    /\ Resolves(pool, tx.inputs[k])
    /\ ~NotPositive(ResolvedAmount(pool, tx.inputs[k]))
    /\ ~\E j \in 1..(k - 1) : keys[j] = keys[k] /\ Counted(keys, tx, pool, j)

RECURSIVE ExactSum(_)
ExactSum(amounts) ==
    IF amounts = <<>> THEN Zero ELSE AddExact(Head(amounts), ExactSum(Tail(amounts)))

CountedInputSum(keys, tx, pool) ==
    ExactSum([k \in DOMAIN tx.inputs |->
                IF Counted(keys, tx, pool, k) THEN ResolvedAmount(pool, tx.inputs[k])
                ELSE Zero])

CountedOutputSum(tx) == ExactSum([k \in DOMAIN tx.outputs |-> tx.outputs[k].amount])

HasCode(errs, code) == \E k \in DOMAIN errs : errs[k].code = code

CodeCount(errs, code) == Cardinality({k \in DOMAIN errs : errs[k].code = code})

InputVerifies(input) == input.signature = SignatureOf(input.owner)

SixInvariants(tx, pool) ==
    /\ Len(tx.inputs) >= 1 /\ Len(tx.outputs) >= 1
    /\ \A k \in DOMAIN tx.inputs : Resolves(pool, tx.inputs[k])
    /\ \A j, k \in DOMAIN tx.inputs : j < k => Triple(tx.inputs[j]) # Triple(tx.inputs[k])
    /\ \A k \in DOMAIN tx.inputs :
          Resolves(pool, tx.inputs[k]) => ~NotPositive(ResolvedAmount(pool, tx.inputs[k]))
    /\ \A k \in DOMAIN tx.outputs : ~NotPositive(tx.outputs[k].amount)
    /\ ExactSum([k \in DOMAIN tx.inputs |->
                    IF Resolves(pool, tx.inputs[k])
                    THEN ResolvedAmount(pool, tx.inputs[k]) ELSE Zero])
         = CountedOutputSum(tx)
    /\ \A k \in DOMAIN tx.inputs : InputVerifies(tx.inputs[k])

\* an input visited by the loop step that is about to run
AtInput == pc = "inputs" /\ i <= Len(transaction.inputs)

-----------------------------------------------------------------------------
(* Claims about validateTransaction.                                       *)

\* C1: the call returns valid = true if and only if the six validator
\* invariants hold of the transaction and the pool snapshot.
C1_ValidIffSixInvariants ==
    pc = "done" => (result.valid <=> SixInvariants(transaction, utxoPool))

\* C2: AmountMismatch is emitted if and only if the exact total of the counted
\* inputs (resolving, positive, no repeat of a counted (txId, owner, index)
\* key) differs from the exact total of the positive outputs.
C2_MismatchIffCountedSumsDiffer ==
    pc = "done" =>
        (HasCode(result.errors, "AMOUNT_MISMATCH")
            <=> CountedInputSum(TripleKeys(transaction), transaction, utxoPool)
                    # CountedOutputSum(transaction))

\* C3: the loop step for an input appends DoubleSpending, and leaves the input
\* sum alone, exactly when the input resolves and an earlier counted input has
\* the same (txId, owner, index) triple; otherwise it appends no DoubleSpending.
C3_DoubleSpendingIffTripleRepeated ==
    [][AtInput =>
        LET input == transaction.inputs[i]
            repeated == /\ Resolves(utxoPool, input)
                        /\ \E j \in 1..(i - 1) :
                              /\ Triple(transaction.inputs[j]) = Triple(input)
                              /\ Counted(TripleKeys(transaction), transaction, utxoPool, j)
            raised == /\ Len(errors') = Len(errors) + 1
                      /\ errors'[Len(errors')].code = "DOUBLE_SPENDING"
        IN  /\ raised <=> repeated
            /\ raised => inputSum' = inputSum /\ SubSeq(errors', 1, Len(errors)) = errors
       ]_vars


\* C4: the loop step for an input whose reference the pool does not hold
\* appends exactly one error, UtxoNotFound naming the reference, and changes
\* neither the input sum nor the set of used keys; the returned list holds as
\* many UtxoNotFound errors as there are inputs that do not resolve.
C4_UtxoNotFoundOnly ==
    /\ [][(AtInput /\ ~Resolves(utxoPool, transaction.inputs[i])) =>
            /\ errors' = Append(errors, CreateValidationError("UTXO_NOT_FOUND",
                    <<"Input UTXO not found", transaction.inputs[i].utxoId.txId>>))
            /\ inputSum' = inputSum
            /\ usedUTXOs' = usedUTXOs
         ]_vars
    /\ [](pc = "done" =>
            CodeCount(result.errors, "UTXO_NOT_FOUND")
                = Cardinality({k \in DOMAIN transaction.inputs :
                                ~Resolves(utxoPool, transaction.inputs[k])}))

\* a finished call on a transaction with an unresolved, badly signed input
\* next to a resolving one
C4_Witness ==
    /\ pc = "done"
    /\ \E k \in DOMAIN transaction.inputs :
          /\ ~Resolves(utxoPool, transaction.inputs[k])
          /\ ~InputVerifies(transaction.inputs[k])
    /\ \E k \in DOMAIN transaction.inputs : Resolves(utxoPool, transaction.inputs[k])
    /\ HasCode(result.errors, "UTXO_NOT_FOUND")

\* the place of an error in the order of discovery
ErrPhase(e) ==
    CASE e.code = "EMPTY_INPUTS" -> 1
      [] e.code \in {"UTXO_NOT_FOUND", "DOUBLE_SPENDING", "INVALID_SIGNATURE"} -> 2
      [] e.code = "NEGATIVE_AMOUNT" -> IF Len(e.message) = 2 THEN 2 ELSE 4
      [] e.code = "EMPTY_OUTPUTS" -> 3
      [] e.code = "AMOUNT_MISMATCH" -> 5

PhaseCount(errs, ph) == Cardinality({k \in DOMAIN errs : ErrPhase(errs[k]) = ph})

\* the members of seq at the positions keep marks, in order
RECURSIVE Pick(_, _, _)
Pick(seq, keep, k) ==
    IF k > Len(seq) THEN <<>>
    ELSE (IF keep[k] THEN <<seq[k]>> ELSE <<>>) \o Pick(seq, keep, k + 1)

\* the references named by the per-input errors, in list order
InputErrorIds(errs) ==
    LET named == Pick(errs, [k \in DOMAIN errs |-> ErrPhase(errs[k]) = 2], 1)
    IN  [k \in DOMAIN named |-> named[k].message[2]]

\* the references of the inputs that break a rule, in input order
FaultyInputIds(tx, pool) ==
    LET faulty == Pick(tx.inputs,
            [k \in DOMAIN tx.inputs |->
                ~(Counted(StringKeys(tx), tx, pool, k) /\ InputVerifies(tx.inputs[k]))], 1)
    IN  [k \in DOMAIN faulty |-> faulty[k].utxoId.txId]

\* C5: the returned list is in discovery order and leaves no phase out:
\* EmptyInputs first, one error per faulty input in input order, EmptyOutputs,
\* one NegativeAmount per non-positive output, and AmountMismatch, if any, last.
C5_DiscoveryOrder ==
    pc = "done" =>
        LET errs == result.errors
        IN  /\ \A a, b \in DOMAIN errs : a < b => ErrPhase(errs[a]) <= ErrPhase(errs[b])
            /\ PhaseCount(errs, 1) = (IF Len(transaction.inputs) = 0 THEN 1 ELSE 0)
            /\ InputErrorIds(errs) = FaultyInputIds(transaction, utxoPool)
            /\ PhaseCount(errs, 3) = (IF Len(transaction.outputs) = 0 THEN 1 ELSE 0)
            /\ PhaseCount(errs, 4)
                 = Cardinality({k \in DOMAIN transaction.outputs :
                                    NotPositive(transaction.outputs[k].amount)})
            /\ PhaseCount(errs, 5) <= 1
            /\ PhaseCount(errs, 5) = 1 => errs[Len(errs)].code = "AMOUNT_MISMATCH"

\* a finished call that reported a per-input error, a per-output error and the
\* mismatch in one list
C5_Witness ==
    /\ pc = "done"
    /\ PhaseCount(result.errors, 2) >= 2
    /\ PhaseCount(result.errors, 4) >= 1
    /\ PhaseCount(result.errors, 5) = 1

\* the pool snapshots that hold the same references and amounts as pool
OwnerVariants(pool) ==
    {[r \in DOMAIN pool |-> [owner |-> f[r], amount |-> pool[r].amount]] :
        f \in [DOMAIN pool -> {OwnerC, OwnerBC}]}

\* C10: the returned result is the one the call returns against every pool
\* snapshot that differs from the given one only in the recorded owners.
C10_ResultIgnoresRecordedOwner ==
    pc = "done" =>
        \A other \in OwnerVariants(utxoPool) :
            ValidateTransaction(transaction, other) = result

\* a transaction accepted although an input claims an owner the pool does not
\* record for the output it spends
C10_Witness ==
    /\ pc = "done"
    /\ result.valid
    /\ \E k \in DOMAIN transaction.inputs :
          transaction.inputs[k].owner
            # utxoPool[<<transaction.inputs[k].utxoId.txId,
                       transaction.inputs[k].utxoId.outputIndex>>].owner


-----------------------------------------------------------------------------
(* Buffers: byte sequences, UTF-8, fixed-width little-endian integers.     *)

MaxCount == 255

MaxStringBytes == 255

Throw(message) == [ok |-> FALSE, error |-> message]

Min(a, b) == IF a < b THEN a ELSE b

\* Buffer.from(str, "utf8") for one code point
Utf8OfCodePoint(cp) ==
    IF cp < 128 THEN <<cp>>
    ELSE IF cp < 2048 THEN <<192 + (cp \div 64), 128 + (cp % 64)>>
    ELSE IF cp >= 55296 /\ cp <= 57343 THEN <<239, 191, 189>>
    ELSE IF cp < 65536
    THEN <<224 + (cp \div 4096), 128 + ((cp \div 64) % 64), 128 + (cp % 64)>>
    ELSE <<240 + (cp \div 262144), 128 + ((cp \div 4096) % 64),
           128 + ((cp \div 64) % 64), 128 + (cp % 64)>>

\* Buffer.from(str, "utf8")
Utf8Encode(str) == Flatten([k \in DOMAIN str |-> Utf8OfCodePoint(str[k])])

\* buffer.toString("utf8") on bytes from position k on: cp and need are the
\* code point and the count of continuation bytes still owed, lo..hi the range
\* the next continuation byte must lie in; an ill-formed part gives U+FFFD
RECURSIVE Utf8Decode(_, _, _, _, _, _)
Utf8Decode(bytes, k, cp, need, lo, hi) ==
    IF k > Len(bytes) THEN (IF need > 0 THEN <<65533>> ELSE <<>>)
    ELSE LET b == bytes[k]
         IN  IF need = 0
             THEN IF b < 128 THEN <<b>> \o Utf8Decode(bytes, k + 1, 0, 0, 128, 191)
                  ELSE IF b >= 194 /\ b <= 223
                  THEN Utf8Decode(bytes, k + 1, b - 192, 1, 128, 191)
                  ELSE IF b >= 224 /\ b <= 239
                  THEN Utf8Decode(bytes, k + 1, b - 224, 2,
                                  IF b = 224 THEN 160 ELSE 128,
                                  IF b = 237 THEN 159 ELSE 191)
                  ELSE IF b >= 240 /\ b <= 244
                  THEN Utf8Decode(bytes, k + 1, b - 240, 3,
                                  IF b = 240 THEN 144 ELSE 128,
                                  IF b = 244 THEN 143 ELSE 191)
                  ELSE <<65533>> \o Utf8Decode(bytes, k + 1, 0, 0, 128, 191)
             ELSE IF b < lo \/ b > hi
             THEN <<65533>> \o Utf8Decode(bytes, k, 0, 0, 128, 191)
             ELSE IF need = 1
             THEN <<cp * 64 + (b - 128)>> \o Utf8Decode(bytes, k + 1, 0, 0, 128, 191)
             ELSE Utf8Decode(bytes, k + 1, cp * 64 + (b - 128), need - 1, 128, 191)

\* buffer.toString("utf8", start, end): both ends are clamped to the buffer
BufferToString(buf, start, end) ==
    Utf8Decode(SubSeq(buf, start + 1, Min(end, Len(buf))), 1, 0, 0, 128, 191)

\* mutant of InBounds: only the first byte of the field is checked
InBoundsFirstByteOnly(buf, offset, width) == offset < Len(buf)

\* the bounds check of buffer.readUInt8 / readUInt32LE / readBigUInt64LE
InBounds(buf, offset, width) == offset + width <= Len(buf)

ByteAt(buf, offset) == IF offset < Len(buf) THEN buf[offset + 1] ELSE 0

\* buffer.readUInt8(offset)
ReadUInt8(buf, offset) ==
    IF InBounds(buf, offset, 1) THEN [ok |-> TRUE, value |-> buf[offset + 1]]
    ELSE Throw("ERR_OUT_OF_RANGE")

\* buffer.readUInt32LE(offset)
ReadUInt32LE(buf, offset) ==
    IF InBounds(buf, offset, 4)
    THEN [ok |-> TRUE,
          value |-> <<ByteAt(buf, offset) + 256 * ByteAt(buf, offset + 1),
                      ByteAt(buf, offset + 2) + 256 * ByteAt(buf, offset + 3),
                      0, 0, 0>>]
    ELSE Throw("ERR_OUT_OF_RANGE")

\* buffer.readBigUInt64LE(offset)
ReadBigUInt64LE(buf, offset) ==
    IF InBounds(buf, offset, 8)
    THEN [ok |-> TRUE,
          value |-> <<ByteAt(buf, offset) + 256 * ByteAt(buf, offset + 1),
                      ByteAt(buf, offset + 2) + 256 * ByteAt(buf, offset + 3),
                      ByteAt(buf, offset + 4) + 256 * ByteAt(buf, offset + 5),
                      ByteAt(buf, offset + 6) + 256 * ByteAt(buf, offset + 7),
                      0>>]
    ELSE Throw("ERR_OUT_OF_RANGE")

\* Buffer.alloc(4).writeUInt32LE(value, 0)
WriteUInt32LE(value) ==
    IF value[3] # 0 \/ value[4] # 0 \/ value[5] # 0 THEN Throw("ERR_OUT_OF_RANGE")
    ELSE [ok |-> TRUE,
          bytes |-> <<value[1] % 256, value[1] \div 256,
                      value[2] % 256, value[2] \div 256>>]

\* BigInt(n): the integer itself, kept exactly
BigInt(n) == n

\* Number(b): the bigint rounded to a double
Number(b) == ToDouble(b)

\* Buffer.alloc(8).writeBigUInt64LE(value, 0)
WriteBigUInt64LE(value) ==
    IF value[5] # 0 THEN Throw("ERR_OUT_OF_RANGE")
    ELSE [ok |-> TRUE,
          bytes |-> <<value[1] % 256, value[1] \div 256, value[2] % 256, value[2] \div 256,
                      value[3] % 256, value[3] \div 256, value[4] % 256, value[4] \div 256>>]

-----------------------------------------------------------------------------
(* The codec.                                                              *)

\* mutant of EncodeString: the limit is applied to the string's length
EncodeStringByLength(str) ==
    IF Len(str) > MaxStringBytes THEN Throw("String demasiado largo (>255 bytes)")
    ELSE [ok |-> TRUE, bytes |-> <<Len(Utf8Encode(str)) % 256>> \o Utf8Encode(str)]

\* encodeString
EncodeString(str) ==
    LET buf == Utf8Encode(str)
    IN  IF Len(buf) > MaxStringBytes THEN Throw("String demasiado largo (>255 bytes)")
        ELSE [ok |-> TRUE, bytes |-> <<Len(buf)>> \o buf]

\* decodeString
DecodeString(buf, offset) ==
    LET len == ReadUInt8(buf, offset)
    IN  IF ~len.ok THEN len
        ELSE [ok |-> TRUE,
              value |-> BufferToString(buf, offset + 1, offset + 1 + len.value),
              nextOffset |-> offset + 1 + len.value]

\* the parts of one input, in the order they are pushed
InputParts(inp) ==
    <<EncodeString(inp.utxoId.txId), WriteUInt32LE(inp.utxoId.outputIndex),
      EncodeString(inp.owner), EncodeString(inp.signature)>>

\* the parts of one output, in the order they are pushed
OutputParts(out) ==
    <<EncodeString(out.recipient), WriteBigUInt64LE(BigInt(out.amount))>>

\* if (n > 255) throw ...; parts.push(Buffer.from([n]))
CountPart(n, message) ==
    IF n > MaxCount THEN Throw(message) ELSE [ok |-> TRUE, bytes |-> <<n>>]

\* every step of encodeTransaction that pushes a part or throws, in order
EncodeSteps(tx) ==
    <<EncodeString(tx.id), CountPart(Len(tx.inputs), "Demasiados inputs (>255)")>>
    \o Flatten([k \in DOMAIN tx.inputs |-> InputParts(tx.inputs[k])])
    \o <<CountPart(Len(tx.outputs), "Demasiados outputs (>255)")>>
    \o Flatten([k \in DOMAIN tx.outputs |-> OutputParts(tx.outputs[k])])
    \o <<WriteBigUInt64LE(BigInt(tx.timestamp))>>

\* encodeTransaction: the first step that throws ends the call
EncodeTransaction(tx) ==
    LET steps == EncodeSteps(tx)
        failed == {k \in DOMAIN steps : ~steps[k].ok}
    IN  IF failed # {}
        THEN steps[CHOOSE k \in failed : \A j \in failed : k <= j]
        ELSE [ok |-> TRUE, bytes |-> Flatten([k \in DOMAIN steps |-> steps[k].bytes])]

\* the input loop of decodeTransaction, n inputs still to read
RECURSIVE DecodeInputs(_, _, _, _)
DecodeInputs(buf, offset, n, inputs) ==
    IF n = 0 THEN [ok |-> TRUE, inputs |-> inputs, offset |-> offset]
    ELSE LET txIdRes == DecodeString(buf, offset)
         IN  IF ~txIdRes.ok THEN txIdRes
             ELSE LET outputIndex == ReadUInt32LE(buf, txIdRes.nextOffset)
                  IN  IF ~outputIndex.ok THEN outputIndex
                      ELSE LET ownerRes == DecodeString(buf, txIdRes.nextOffset + 4)
                           IN  IF ~ownerRes.ok THEN ownerRes
                               ELSE LET sigRes == DecodeString(buf, ownerRes.nextOffset)
                                    IN  IF ~sigRes.ok THEN sigRes
                                        ELSE DecodeInputs(buf, sigRes.nextOffset, n - 1,
                                                Append(inputs,
                                                    [utxoId |-> [txId |-> txIdRes.value,
                                                                 outputIndex |-> outputIndex.value],
                                                     owner |-> ownerRes.value,
                                                     signature |-> sigRes.value]))

\* the output loop of decodeTransaction, n outputs still to read
RECURSIVE DecodeOutputs(_, _, _, _)
DecodeOutputs(buf, offset, n, outputs) ==
    IF n = 0 THEN [ok |-> TRUE, outputs |-> outputs, offset |-> offset]
    ELSE LET addrRes == DecodeString(buf, offset)
         IN  IF ~addrRes.ok THEN addrRes
             ELSE LET amount == ReadBigUInt64LE(buf, addrRes.nextOffset)
                  IN  IF ~amount.ok THEN amount
                      ELSE DecodeOutputs(buf, addrRes.nextOffset + 8, n - 1,
                              Append(outputs, [recipient |-> addrRes.value,
                                               amount |-> Number(amount.value)]))

\* decodeTransaction: the transaction read, with the offset reached, or the throw
DecodeTransaction(buf) ==
    LET idRes == DecodeString(buf, 0)
    IN  IF ~idRes.ok THEN idRes
        ELSE LET nInputs == ReadUInt8(buf, idRes.nextOffset)
        IN  IF ~nInputs.ok THEN nInputs
        ELSE LET ins == DecodeInputs(buf, idRes.nextOffset + 1, nInputs.value, <<>>)
        IN  IF ~ins.ok THEN ins
        ELSE LET nOutputs == ReadUInt8(buf, ins.offset)
        IN  IF ~nOutputs.ok THEN nOutputs
        ELSE LET outs == DecodeOutputs(buf, ins.offset + 1, nOutputs.value, <<>>)
        IN  IF ~outs.ok THEN outs
        ELSE LET timestamp == ReadBigUInt64LE(buf, outs.offset)
        IN  IF ~timestamp.ok THEN timestamp
        ELSE [ok |-> TRUE,
              value |-> [id |-> idRes.value, inputs |-> ins.inputs,
                         outputs |-> outs.outputs,
                         timestamp |-> Number(timestamp.value)],
              offset |-> outs.offset + 8]


-----------------------------------------------------------------------------
(* Inputs of the codec runs.                                               *)

EAcute == <<233>>                              \* U+00E9, two bytes in UTF-8
Index01020304 == <<772, 258, 0, 0, 0>>         \* 0x01020304
TwoTo53Plus1 == <<1, 0, 0, 32, 0>>
MaxUInt64 == <<65535, 65535, 65535, 65535, 0>>
Timestamp == <<1, 2, 3, 0, 0>>                 \* 0x000300020001

CodecInputs ==
    [utxoId : [txId : {IdAB}, outputIndex : {One, Index01020304}],
     owner : {OwnerC, EAcute},
     signature : {SignatureOf(OwnerC)}]

CodecOutputs == [recipient : {Bob}, amount : {One, TwoTo53, TwoTo53Plus1, MaxUInt64}]

CodecTransactions ==
    [id : {<<>>, IdA, EAcute},
     inputs : SeqsUpTo(CodecInputs, MaxCodecInputs),
     outputs : SeqsUpTo(CodecOutputs, MaxCodecOutputs),
     timestamp : {Timestamp}]

\* bytes appended after the timestamp
TrailingBytes == SeqsUpTo({0, 255}, MaxTrailing) \ {<<>>}

\* values a byte of the buffer is overwritten with
CorruptValues == {0, 3, 200}

-----------------------------------------------------------------------------
(* The codec as a state machine: encode, let the buffer be cut, extended   *)
(* or damaged on its way, decode.                                          *)

ValidatorIdle == <<utxoPool, i, errors, usedUTXOs, inputSum, outputSum, result>>

CodecStart ==
    /\ pc = "start"
    /\ utxoPool = <<>>
    /\ i = 0
    /\ errors = <<>>
    /\ usedUTXOs = {}
    /\ inputSum = Zero
    /\ outputSum = Zero
    /\ result = NoValue
    /\ buffer = <<>>
    /\ origin = "none"
    /\ encoded = NoValue
    /\ decoded = NoValue

InitCodec ==
    /\ transaction \in CodecTransactions
    /\ CodecStart

EncodeCall ==
    /\ pc = "start"
    /\ encoded' = EncodeTransaction(transaction)
    /\ IF encoded'.ok
       THEN buffer' = encoded'.bytes /\ origin' = "exact" /\ pc' = "encoded"
       ELSE buffer' = buffer /\ origin' = origin /\ pc' = "encode failed"
    /\ UNCHANGED <<transaction, decoded, ValidatorIdle>>

Truncate ==
    /\ pc = "encoded"
    /\ origin = "exact"
    /\ \E n \in 0..(Len(buffer) - 1) : buffer' = SubSeq(buffer, 1, n)
    /\ origin' = "truncated"
    /\ UNCHANGED <<pc, transaction, encoded, decoded, ValidatorIdle>>

Extend ==
    /\ pc = "encoded"
    /\ origin = "exact"
    /\ \E x \in TrailingBytes : buffer' = buffer \o x
    /\ origin' = "extended"
    /\ UNCHANGED <<pc, transaction, encoded, decoded, ValidatorIdle>>

Corrupt ==
    /\ pc = "encoded"
    /\ origin = "exact"
    /\ \E k \in DOMAIN buffer : \E b \in CorruptValues \ {buffer[k]} :
          buffer' = [buffer EXCEPT ![k] = b]
    /\ origin' = "corrupted"
    /\ UNCHANGED <<pc, transaction, encoded, decoded, ValidatorIdle>>

DecodeCall ==
    /\ pc = "encoded"
    /\ decoded' = DecodeTransaction(buffer)
    /\ pc' = "decoded"
    /\ UNCHANGED <<transaction, buffer, origin, encoded, ValidatorIdle>>

NextCodec ==
    \/ EncodeCall
    \/ Truncate
    \/ Extend
    \/ Corrupt
    \/ DecodeCall

SpecCodec == InitCodec /\ [][NextCodec]_vars

-----------------------------------------------------------------------------
(* Claims about the codec.                                                 *)

\* C6: decoding the bytes encodeTransaction produced gives back the
\* transaction, field for field.
C6_RoundTrip ==
    (pc = "decoded" /\ origin = "exact") => (decoded.ok /\ decoded.value = transaction)

\* C7: a decode that returns a transaction has read nothing past the end of the
\* buffer, and decoding a proper prefix of an encoding throws.
C7_TruncationThrows ==
    pc = "decoded" =>
        /\ decoded.ok => decoded.offset <= Len(buffer)
        /\ origin = "truncated" => ~decoded.ok

\* a buffer cut inside the bytes of the id string, decoded
C7_Witness ==
    /\ pc = "decoded"
    /\ origin = "truncated"
    /\ Len(buffer) >= 2
    /\ Len(buffer) < 1 + buffer[1]
    /\ ~decoded.ok

\* C8: decoding an encoding followed by unconsumed trailing bytes throws.
C8_TrailingBytesThrow ==
    (pc = "decoded" /\ origin = "extended") => ~decoded.ok


-----------------------------------------------------------------------------
(* Encoding at the capacity limits of the format.                          *)

\* strings of 255 and 256 bytes, in one-byte and in two-byte characters
LimitStrings ==
    {Repeat(IdA, n) : n \in {MaxStringBytes, MaxStringBytes + 1}}
    \cup {Repeat(EAcute, n) : n \in {MaxStringBytes \div 2, (MaxStringBytes + 1) \div 2}}
    \cup {IdA}

TooLong == Repeat(IdA, MaxStringBytes + 1)

LimitCounts == {0, 1, MaxCount, MaxCount + 1}

PlainInput ==
    [utxoId |-> [txId |-> IdA, outputIndex |-> Zero], owner |-> OwnerC,
     signature |-> SignatureOf(OwnerC)]

\* inputs with one string field of 256 bytes
LongInputs ==
    {[PlainInput EXCEPT !.utxoId.txId = TooLong],
     [PlainInput EXCEPT !.owner = TooLong],
     [PlainInput EXCEPT !.signature = TooLong]}

PlainOutput == [recipient |-> Bob, amount |-> One]

LongOutput == [recipient |-> TooLong, amount |-> One]

\* the input and output lists get 0, 1, 255 or 256 plain members, or hold a
\* single member with an over-long string
LimitTransactions ==
    [id : LimitStrings,
     inputs : {Repeat(<<PlainInput>>, n) : n \in LimitCounts}
                \cup {<<inp>> : inp \in LongInputs},
     outputs : {Repeat(<<PlainOutput>>, n) : n \in LimitCounts} \cup {<<LongOutput>>},
     timestamp : {Timestamp}]

InitCapacity ==
    /\ transaction \in LimitTransactions
    /\ CodecStart

SpecCapacity == InitCapacity /\ [][EncodeCall]_vars

\* the number of bytes of the code points str[lo..hi] in UTF-8
RECURSIVE Utf8BytesIn(_, _, _)
Utf8BytesIn(str, lo, hi) ==
    IF lo > hi THEN 0
    ELSE IF lo = hi
    THEN (IF str[lo] < 128 THEN 1
          ELSE IF str[lo] < 2048 THEN 2
          ELSE IF str[lo] < 65536 THEN 3 ELSE 4)
    ELSE Utf8BytesIn(str, lo, (lo + hi) \div 2)
            + Utf8BytesIn(str, ((lo + hi) \div 2) + 1, hi)

\* the number of bytes of a string in UTF-8
Utf8ByteLength(str) == Utf8BytesIn(str, 1, Len(str))

StringFields(tx) ==
    {tx.id}
    \cup {tx.inputs[k].utxoId.txId : k \in DOMAIN tx.inputs}
    \cup {tx.inputs[k].owner : k \in DOMAIN tx.inputs}
    \cup {tx.inputs[k].signature : k \in DOMAIN tx.inputs}
    \cup {tx.outputs[k].recipient : k \in DOMAIN tx.outputs}

OverCapacity(tx) ==
    \/ Len(tx.inputs) > 255
    \/ Len(tx.outputs) > 255
    \/ \E str \in StringFields(tx) : Utf8ByteLength(str) > 255

\* C9: encodeTransaction throws a capacity error, and hands back no bytes,
\* exactly when the transaction has more than 255 inputs, more than 255
\* outputs or a string field of more than 255 UTF-8 bytes.
C9_CapacityErrors ==
    pc # "start" =>
        /\ ~encoded.ok <=> OverCapacity(transaction)
        /\ ~encoded.ok =>
              /\ pc = "encode failed"
              /\ buffer = <<>>
              /\ encoded.error \in {"Demasiados inputs (>255)", "Demasiados outputs (>255)",
                                    "String demasiado largo (>255 bytes)"}
        /\ encoded.ok => pc = "encoded" /\ buffer = encoded.bytes

\* an id of 128 two-byte characters, 256 bytes, refused although every count
\* and every other string is within the limits
C9_Witness ==
    /\ pc = "encode failed"
    /\ Len(transaction.id) <= 255
    /\ Utf8ByteLength(transaction.id) = 256
    /\ Len(transaction.inputs) = 255
    /\ Len(transaction.outputs) = 255
    /\ \A str \in StringFields(transaction) \ {transaction.id} : Utf8ByteLength(str) <= 255

====
